---- MODULE Spec2Model ----
(***************************************************************************)
(* Model of changelog_generator.py: the git adapter (run_git_command,      *)
(* get_commit_log), the classifier (parse_conventional_commit,             *)
(* infer_commit_type, extract_issue_references), the grouper               *)
(* (group_commits), the context analyzer, the three renderers and main.    *)
(*                                                                         *)
(* A Python str is a sequence of one-character strings, so that lower(),   *)
(* the `in` substring test, split/join and the regular expressions are     *)
(* computed on characters.  None is the empty tuple and a present optional *)
(* value x is <<x>>.                                                       *)
(***************************************************************************)
EXTENDS Integers, Sequences, FiniteSets, TLC

VARIABLES
    pc,        \* position of main(): start, list, show, group, render, write, done, exited, crashed
    args,      \* the parsed command line (argparse namespace)
    calls,     \* every subprocess.run(["git", ...]) issued so far, in order
    hashes,    \* commit_hashes of get_commit_log
    idx,       \* loop index of the running for-loop (get_commit_log, group_commits)
    commits,   \* the commits list
    groups,    \* the groups dict of group_commits, as its items in key insertion order
    output,    \* the rendered changelog, as a sequence of lines / JSON members
    exit,      \* how the process ended and what it printed
    sink,      \* where the changelog text went
    input,     \* argument of the function under study (function-level specifications)
    result,    \* its return value
    phase      \* "in" before the call, "done" after it

vars == <<pc, args, calls, hashes, idx, commits, groups, output, exit, sink,
          input, result, phase>>

mainVars == <<pc, args, calls, hashes, idx, commits, groups, output, exit, sink>>
funVars == <<input, result, phase>>

(***************************************************************************)
(* Bounds of the model.                                                    *)
(***************************************************************************)
MaxTokens == 5      \* a subject is at most this many vocabulary tokens
MaxLines == 6       \* a show block has at most this many lines
MaxCommits == 2     \* rev-list returns at most this many hashes

(***************************************************************************)
(* Strings.                                                                *)
(***************************************************************************)
None == <<>>
Some(x) == <<x>>

UpperChars == <<"A","B","C","D","E","F","G","H","I","J","K","L","M",
                "N","O","P","Q","R","S","T","U","V","W","X","Y","Z">>
LowerChars == <<"a","b","c","d","e","f","g","h","i","j","k","l","m",
                "n","o","p","q","r","s","t","u","v","w","x","y","z">>
DigitChars == {"0","1","2","3","4","5","6","7","8","9"}

Range(f) == {f[i] : i \in DOMAIN f}

UpperSet == Range(UpperChars)
WordChars == Range(UpperChars) \cup Range(LowerChars) \cup DigitChars \cup {"_"}
SpaceChars == {" ", "\t", "\n"}

\* str.lower() on each upper-case letter
LowerOf == [c \in UpperSet |->
               LowerChars[CHOOSE i \in DOMAIN UpperChars : UpperChars[i] = c]]

\* str.lower() on one character
LowerChar(c) == IF c \in UpperSet THEN LowerOf[c] ELSE c

\* str.lower()
Lower(s) == [i \in DOMAIN s |-> LowerChar(s[i])]

\* regex classes \w, \s, \d (ASCII part)
IsWord(c) == c \in WordChars
IsSpace(c) == c \in SpaceChars
IsDigit(c) == c \in DigitChars

\* needle in hay
Contains(hay, needle) ==
    \E i \in 0..(Len(hay) - Len(needle)) :
        SubSeq(hay, i + 1, i + Len(needle)) = needle

RECURSIVE Concat(_)
\* "".join(parts)
Concat(parts) ==
    IF parts = <<>> THEN <<>> ELSE Head(parts) \o Concat(Tail(parts))

RECURSIVE Join(_)
\* "\n".join(lines)
Join(lines) ==
    IF lines = <<>> THEN <<>>
    ELSE IF Len(lines) = 1 THEN lines[1]
    ELSE lines[1] \o <<"\n">> \o Join(Tail(lines))

SetMax(S) == CHOOSE x \in S : \A y \in S : y <= x
SetMin(S) == CHOOSE x \in S : \A y \in S : x <= y

(***************************************************************************)
(* COMMIT_TYPES: the catalog of types and their sort priorities.           *)
(***************************************************************************)
s_feat == <<"f","e","a","t">>
s_fix == <<"f","i","x">>
s_docs == <<"d","o","c","s">>
s_style == <<"s","t","y","l","e">>
s_refactor == <<"r","e","f","a","c","t","o","r">>
s_perf == <<"p","e","r","f">>
s_test == <<"t","e","s","t">>
s_build == <<"b","u","i","l","d">>
s_ci == <<"c","i">>
s_chore == <<"c","h","o","r","e">>
s_revert == <<"r","e","v","e","r","t">>
s_security == <<"s","e","c","u","r","i","t","y">>
s_unknown == <<"u","n","k","n","o","w","n">>

COMMIT_TYPES ==
    << [type |-> s_feat,     priority |-> 1],
       [type |-> s_fix,      priority |-> 2],
       [type |-> s_docs,     priority |-> 4],
       [type |-> s_style,    priority |-> 7],
       [type |-> s_refactor, priority |-> 5],
       [type |-> s_perf,     priority |-> 3],
       [type |-> s_test,     priority |-> 8],
       [type |-> s_build,    priority |-> 6],
       [type |-> s_ci,       priority |-> 9],
       [type |-> s_chore,    priority |-> 10],
       [type |-> s_revert,   priority |-> 11],
       [type |-> s_security, priority |-> 0] >>

CatalogTypes == {COMMIT_TYPES[i].type : i \in DOMAIN COMMIT_TYPES}

DefaultPriority == 99

\* COMMIT_TYPES.get(x, {}).get("priority", 99)
Priority(t) ==
    IF t \in CatalogTypes
    THEN COMMIT_TYPES[CHOOSE i \in DOMAIN COMMIT_TYPES : COMMIT_TYPES[i].type = t].priority
    ELSE DefaultPriority

(***************************************************************************)
(* infer_commit_type: the if/elif chain, first matching branch wins.       *)
(* The keywords are kept exactly as the source spells them.                *)
(***************************************************************************)
InferTable ==
    << [type |-> s_fix,
        words |-> { <<"f","i","x">>, <<"b","u","g">>, <<"p","a","t","c","h">>,
                    <<"r","e","s","o","l","v","e">> }],
       [type |-> s_feat,
        words |-> { <<"f","e","a","t">>, <<"a","d","d">>, <<"n","e","w">>,
                    <<"i","m","p","l","e","m","e","n","t">> }],
       [type |-> s_docs,
        words |-> { <<"d","o","c">>, <<"r","e","a","d","m","e">>,
                    <<"c","o","m","m","e","n","t">> }],
       [type |-> s_refactor,
        words |-> { <<"r","e","f","a","c","t","o","r">>, <<"c","l","e","a","n","u","p">>,
                    <<"i","m","p","r","o","v","e">> }],
       [type |-> s_perf,
        words |-> { <<"p","e","r","f">>, <<"o","p","t","i","m","i","z","e">>,
                    <<"s","p","e","e","d">> }],
       [type |-> s_test,
        words |-> { <<"t","e","s","t">>, <<"c","o","v","e","r","a","g","e">> }],
       [type |-> s_security,
        words |-> { <<"s","e","c","u","r","i","t","y">>,
                    <<"v","u","l","n","e","r","a","b","i","l","i","t","y">>,
                    <<"C","V","E">> }],
       [type |-> s_build,
        words |-> { <<"b","u","i","l","d">>, <<"d","e","p","s">>,
                    <<"d","e","p","e","n","d","e","n","c","y">> }],
       [type |-> s_ci,
        words |-> { <<"c","i">>, <<"p","i","p","e","l","i","n","e">>,
                    <<"w","o","r","k","f","l","o","w">> }] >>

InferCommitType(subject) ==
    LET subject_lower == Lower(subject)
        hit == {i \in DOMAIN InferTable :
                   \E word \in InferTable[i].words : Contains(subject_lower, word)}
    IN  IF hit = {} THEN s_chore ELSE InferTable[SetMin(hit)].type

(***************************************************************************)
(* re.match(r'^(\w+)(?:\(([^)]+)\))?(!)?:\s*(.+)$', subject), as the       *)
(* backtracking matcher runs it: each quantifier is greedy and each        *)
(* optional group is tried present before absent.                          *)
(***************************************************************************)
NoMatch == [matched |-> FALSE, g1 |-> <<>>, g2 |-> None, g3 |-> FALSE, g4 |-> <<>>]

\* ":" at r, then \s* (longest first), then .+ up to the end
MatchColon(s, r) ==
    LET n == Len(s)
        ws == {w \in 0..(n - r) :
                  /\ \A i \in (r + 1)..(r + w) : IsSpace(s[i])
                  /\ r + w + 1 <= n
                  /\ \A i \in (r + w + 1)..n : s[i] # "\n"}
    IN  IF r <= n /\ s[r] = ":" /\ ws # {}
        THEN [matched |-> TRUE, g4 |-> SubSeq(s, r + SetMax(ws) + 1, n)]
        ELSE [matched |-> FALSE, g4 |-> <<>>]

\* (!)? at q, then the colon part: "!" taken (with) is tried before "!" skipped (without)
BangResult(s, q, with, without) ==
    IF q <= Len(s) /\ s[q] = "!" /\ with.matched
    THEN [matched |-> TRUE, g3 |-> TRUE, g4 |-> with.g4]
    ELSE [matched |-> without.matched, g3 |-> FALSE, g4 |-> without.g4]

MatchBang(s, q) == BangResult(s, q, MatchColon(s, q + 1), MatchColon(s, q))

\* the ways to pass (?:\(([^)]+)\))? at p: j > 0 is the last character of a
\* scope that starts at p + 1, j = 0 is the group skipped; each with the match
\* of what follows
ScopeTries(s, p) ==
    {[j |-> j, m |-> MatchBang(s, IF j > 0 THEN j + 2 ELSE p)] :
        j \in {0} \cup {k \in (p + 1)..(Len(s) - 1) :
                          /\ s[p] = "("
                          /\ \A i \in (p + 1)..k : s[i] # ")"
                          /\ s[k + 1] = ")"}}

\* the group is tried present, longest scope first, before absent
ScopeResult(s, p, tries) ==
    LET ok == {t \in tries : t.m.matched}
        best == CHOOSE t \in ok : \A u \in ok : u.j <= t.j
    IN  IF ok = {} THEN [matched |-> FALSE, g2 |-> None, g3 |-> FALSE, g4 |-> <<>>]
        ELSE [matched |-> TRUE,
              g2 |-> IF best.j > 0 THEN Some(SubSeq(s, p + 1, best.j)) ELSE None,
              g3 |-> best.m.g3, g4 |-> best.m.g4]

MatchScope(s, p) == ScopeResult(s, p, ScopeTries(s, p))

\* ^(\w+): every length k of the type token, with the match of what follows
TypeTries(s) ==
    {[k |-> k, m |-> MatchScope(s, k + 1)] :
        k \in {k \in 1..Len(s) : \A i \in 1..k : IsWord(s[i])}}

\* the longest type token that lets the rest match
TypeResult(s, tries) ==
    LET ok == {t \in tries : t.m.matched}
        best == CHOOSE t \in ok : \A u \in ok : u.k <= t.k
    IN  IF ok = {} THEN NoMatch
        ELSE [matched |-> TRUE, g1 |-> SubSeq(s, 1, best.k), g2 |-> best.m.g2,
              g3 |-> best.m.g3, g4 |-> best.m.g4]

MatchConventional(s) == TypeResult(s, TypeTries(s))

(***************************************************************************)
(* parse_conventional_commit: the commit dict after the call.              *)
(***************************************************************************)
WithSubject(commit, type, scope, breaking, conventional_subject) ==
    [k \in DOMAIN commit \cup {"conventional_subject"} |->
        CASE k = "type" -> type
          [] k = "scope" -> scope
          [] k = "breaking" -> breaking
          [] k = "conventional_subject" -> conventional_subject
          [] OTHER -> commit[k]]

\* the two branches of `if match:`
ParseBranches(commit, match) ==
    IF match.matched
    THEN WithSubject(commit, Lower(match.g1), match.g2, match.g3, match.g4)
    ELSE WithSubject(commit, InferCommitType(commit.subject), commit.scope,
                     commit.breaking, commit.subject)

\* a slip: the type token is stored as written
ParseBranches_NoLower(commit, match) ==
    IF match.matched
    THEN WithSubject(commit, match.g1, match.g2, match.g3, match.g4)
    ELSE WithSubject(commit, InferCommitType(commit.subject), commit.scope,
                     commit.breaking, commit.subject)

\* a slip: the fallback branch leaves the type as it was
ParseBranches_KeepType(commit, match) ==
    IF match.matched
    THEN WithSubject(commit, Lower(match.g1), match.g2, match.g3, match.g4)
    ELSE WithSubject(commit, commit.type, commit.scope, commit.breaking, commit.subject)

ParseConventionalCommit_NoLower(commit) ==
    ParseBranches_NoLower(commit, MatchConventional(commit.subject))

ParseConventionalCommit_KeepType(commit) ==
    ParseBranches_KeepType(commit, MatchConventional(commit.subject))

ParseConventionalCommit(commit) ==
    ParseBranches(commit, MatchConventional(commit.subject))

(***************************************************************************)
(* str.strip() and str.split("\n").                                        *)
(***************************************************************************)
RECURSIVE LStrip(_)
LStrip(s) == IF s # <<>> /\ IsSpace(Head(s)) THEN LStrip(Tail(s)) ELSE s

RECURSIVE RStrip(_)
RStrip(s) ==
    IF s # <<>> /\ IsSpace(s[Len(s)]) THEN RStrip(SubSeq(s, 1, Len(s) - 1)) ELSE s

Strip(s) == RStrip(LStrip(s))

RECURSIVE Split(_)
\* s.split("\n"): always at least one piece
Split(s) ==
    LET nl == {i \in DOMAIN s : s[i] = "\n"}
    IN  IF nl = {} THEN <<s>>
        ELSE LET i == SetMin(nl)
             IN  <<SubSeq(s, 1, i - 1)>> \o Split(SubSeq(s, i + 1, Len(s)))

\* [x.strip() for x in output.split("\n") if x.strip()]
RECURSIVE NonBlank(_)
NonBlank(pieces) ==
    IF pieces = <<>> THEN <<>>
    ELSE IF Strip(Head(pieces)) = <<>> THEN NonBlank(Tail(pieces))
    ELSE <<Strip(Head(pieces))>> \o NonBlank(Tail(pieces))

(***************************************************************************)
(* extract_issue_references: re.findall of three patterns, IGNORECASE,     *)
(* collected into a set.  A match can only start at its keyword, and no    *)
(* keyword ends where another one does, so the matches findall reports are *)
(* the matches at every start position.                                    *)
(***************************************************************************)
RefWords ==
    { <<"c","l","o","s","e">>, <<"c","l","o","s","e","s">>, <<"f","i","x">>,
      <<"f","i","x","e","s">>, <<"r","e","s","o","l","v","e">>,
      <<"r","e","s","o","l","v","e","s">>, <<"r","e","f">>, <<"r","e","f","s">>,
      <<"s","e","e">> }
GhWords == { <<"g","h">> }
PrWords == { <<"p","r">>, <<"m","r">> }

\* word at position i of text, letter case ignored
WordAt(text, i, word) ==
    /\ i + Len(word) - 1 <= Len(text)
    /\ Lower(SubSeq(text, i, i + Len(word) - 1)) = word

\* (\d+) at position p: the longest run of digits, <<>> when there is none
DigitsAt(text, p) ==
    LET stop == {j \in p..(Len(text) + 1) : j = Len(text) + 1 \/ ~IsDigit(text[j])}
    IN  IF p > Len(text) THEN <<>> ELSE SubSeq(text, p, SetMin(stop) - 1)

\* \s+ at position p: the position after the longest run of whitespace, 0 when none
AfterSpaces(text, p) ==
    LET stop == {j \in p..(Len(text) + 1) : j = Len(text) + 1 \/ ~IsSpace(text[j])}
    IN  IF p > Len(text) \/ SetMin(stop) = p THEN 0 ELSE SetMin(stop)

ExtractIssueReferences(text) ==
    LET starts == 1..Len(text)
        p1 == {DigitsAt(text, AfterSpaces(text, i + Len(w)) + 1) :
                  <<i, w>> \in {x \in starts \X RefWords :
                      /\ WordAt(text, x[1], x[2])
                      /\ AfterSpaces(text, x[1] + Len(x[2])) # 0
                      /\ AfterSpaces(text, x[1] + Len(x[2])) <= Len(text)
                      /\ text[AfterSpaces(text, x[1] + Len(x[2]))] = "#"}}
        p2 == {DigitsAt(text, i + Len(w) + 1) :
                  <<i, w>> \in {x \in starts \X GhWords :
                      /\ WordAt(text, x[1], x[2])
                      /\ x[1] + Len(x[2]) <= Len(text)
                      /\ text[x[1] + Len(x[2])] \in {"-", "#"}}}
        p3 == {IF /\ i + Len(w) <= Len(text)
                  /\ (text[i + Len(w)] \in {":", "#"} \/ IsSpace(text[i + Len(w)]))
                  /\ DigitsAt(text, i + Len(w) + 1) # <<>>
               THEN DigitsAt(text, i + Len(w) + 1)
               ELSE DigitsAt(text, i + Len(w)) :
                  <<i, w>> \in {x \in starts \X PrWords : WordAt(text, x[1], x[2])}}
    IN  (p1 \cup p2 \cup p3) \ {<<>>}

(***************************************************************************)
(* get_commit_log, the body of the loop: one show output to one commit.    *)
(***************************************************************************)
RECURSIVE FindMetadata(_, _, _)
\* the for-loop over enumerate(lines[1:], 1); i is the 1-based position in lines
FindMetadata(lines, i, st) ==
    IF i > Len(lines) THEN st
    ELSE IF lines[i] = st.author THEN FindMetadata(lines, i + 1, st)
    ELSE IF Len(lines) - i + 1 >= 3
         THEN [author |-> lines[i], email |-> lines[i + 1], date |-> lines[i + 2],
               body_lines |-> SubSeq(lines, 2, i - 1)]
         ELSE st

\* if not author and len(lines) >= 4: the last three lines
SimplerParsing(lines, st) ==
    IF st.author = <<>> /\ Len(lines) >= 4
    THEN [author |-> lines[Len(lines) - 2], email |-> lines[Len(lines) - 1],
          date |-> lines[Len(lines)], body_lines |-> SubSeq(lines, 2, Len(lines) - 3)]
    ELSE st

ShowFields(subject, st) ==
    [subject |-> subject, body |-> Join(st.body_lines), author |-> st.author,
     email |-> st.email, date |-> st.date]

ParseLines(lines) ==
    ShowFields(lines[1],
               SimplerParsing(lines,
                   FindMetadata(lines, 2, [author |-> <<>>, email |-> <<>>,
                                           date |-> <<>>, body_lines |-> <<>>])))

ParseShowOutput(show_output) == ParseLines(Split(show_output))

\* the commit dict literal
NewCommit(commit_hash, f) ==
    [hash |-> commit_hash, subject |-> f.subject, body |-> f.body, author |-> f.author,
     email |-> f.email, date |-> f.date, type |-> s_unknown, scope |-> None,
     breaking |-> FALSE, issue_refs |-> {}, files_changed |-> <<>>]

\* commit["issue_refs"] = extract_issue_references(subject + " " + body)
WithIssueRefs(commit) ==
    [commit EXCEPT !.issue_refs =
        ExtractIssueReferences(commit.subject \o <<" ">> \o commit.body)]

CommitFromShow(commit_hash, show_output) ==
    WithIssueRefs(ParseConventionalCommit(NewCommit(commit_hash, ParseShowOutput(show_output))))

(***************************************************************************)
(* Display names: COMMIT_TYPES[t]["name"], else commit_type.title().       *)
(***************************************************************************)
UpperOf == [c \in Range(LowerChars) |->
               UpperChars[CHOOSE i \in DOMAIN LowerChars : LowerChars[i] = c]]

UpperChar(c) == IF c \in Range(LowerChars) THEN UpperOf[c] ELSE c

\* str.upper()
Upper(s) == [i \in DOMAIN s |-> UpperChar(s[i])]

IsLetter(c) == c \in UpperSet \/ c \in Range(LowerChars)

\* str.title(): a letter that follows a letter is lower-cased, any other is upper-cased
Title(s) ==
    [i \in DOMAIN s |->
        IF i > 1 /\ IsLetter(s[i - 1]) THEN LowerChar(s[i]) ELSE UpperChar(s[i])]

CatalogName(t) ==
    CASE t = s_feat -> <<"F","e","a","t","u","r","e","s">>
      [] t = s_fix -> <<"B","u","g"," ","F","i","x","e","s">>
      [] t = s_docs -> <<"D","o","c","u","m","e","n","t","a","t","i","o","n">>
      [] t = s_style -> <<"S","t","y","l","e","s">>
      [] t = s_refactor -> <<"C","o","d","e"," ","R","e","f","a","c","t","o","r","i","n","g">>
      [] t = s_perf -> <<"P","e","r","f","o","r","m","a","n","c","e"," ",
                         "I","m","p","r","o","v","e","m","e","n","t","s">>
      [] t = s_test -> <<"T","e","s","t","s">>
      [] t = s_build -> <<"B","u","i","l","d","s">>
      [] t = s_ci -> <<"C","I","/","C","D">>
      [] t = s_chore -> <<"M","a","i","n","t","e","n","a","n","c","e">>
      [] t = s_revert -> <<"R","e","v","e","r","t","s">>
      [] t = s_security -> <<"S","e","c","u","r","i","t","y">>

\* type_info.get("name", commit_type.title())
DisplayName(t) == IF t \in CatalogTypes THEN CatalogName(t) ELSE Title(t)

(***************************************************************************)
(* run_git_command.  The git process ends in one of three ways: exit       *)
(* status 0 with some stdout, a non-zero exit status (CalledProcessError), *)
(* or it cannot be started at all (FileNotFoundError: no git binary).      *)
(* Only CalledProcessError is caught.                                      *)
(***************************************************************************)
Outcomes == {"ok", "nonzero", "nogit"}

RunGitCommand(outcome, stdout) ==
    CASE outcome = "ok" -> [raised |-> FALSE, value |-> Strip(stdout)]
      [] outcome = "nonzero" -> [raised |-> FALSE, value |-> <<>>]
      [] outcome = "nogit" -> [raised |-> TRUE, value |-> <<>>]

\* cwd=None: the child runs in the current directory of the process
CwdNone == "<cwd of the process>"

\* one entry of the log of git invocations
Call(op, cwd, arg, outcome, r) ==
    [op |-> op, cwd |-> cwd, arg |-> arg, outcome |-> outcome,
     ret |-> IF r.raised THEN "raised" ELSE IF r.value = <<>> THEN "empty" ELSE "text"]

\* an exception that nothing catches leaves main: traceback, exit status 1
Crash ==
    /\ pc' = "crashed"
    /\ exit' = [status |-> Some(1), stdout |-> "", stderr |-> "Traceback"]

(***************************************************************************)
(* What git may print, for the runs of main.                               *)
(***************************************************************************)
RevParseStdouts == { <<".","g","i","t","\n">> }

HashPool == << <<"c","1">>, <<"c","2">>, <<"c","3">>, <<"c","4">> >>

\* rev-list --reverse -n limit HEAD: the first n hashes, one per line
RevListStdouts ==
    {Concat([i \in 1..n |-> HashPool[i] \o <<"\n">>]) : n \in 0..MaxCommits}

MetaTail ==
    <<"\n","A","d","a","\n","a","@","x","\n",
      "2","0","2","4","-","0","1","-","0","2"," ","0","3",":","0","4","\n">>

\* show --quiet --pretty=format:%s%n%b%n%an%n%ae%n%ai
ShowStdoutsMain ==
    { <<"F","e","a","t","(","a","p","i",")","!",":"," ","a","d","d">> \o <<"\n">> \o MetaTail,
      <<"w","e","i","r","d","t","y","p","e",":"," ","x">> \o <<"\n">> \o MetaTail,
      <<"f","i","x","e","s"," ","#","7">> \o <<"\n">> \o MetaTail,
      <<"d","o","c","s",":"," ","y">> \o <<"\n","w","h","y","\n">> \o MetaTail }

NameOnlyStdouts == { <<"t","e","s","t","_","a","\n","R","E","A","D","M","E","\n">> }

StatStdouts == { <<" ","1"," ","f","i","l","e","\n">> }

(***************************************************************************)
(* group_commits: groups is a dict, kept as its items in insertion order.  *)
(***************************************************************************)
GroupKeys(g) == [i \in DOMAIN g |-> g[i].type]

\* groups[commit_type].append(commit)
GroupsAppend(g, commit_type, commit) ==
    IF \E i \in DOMAIN g : g[i].type = commit_type
    THEN [i \in DOMAIN g |->
             IF g[i].type = commit_type
             THEN [g[i] EXCEPT !.commits = Append(@, commit)]
             ELSE g[i]]
    ELSE Append(g, [type |-> commit_type, commits |-> <<commit>>])

\* groups[commit_type]
GroupOf(g, commit_type) ==
    g[CHOOSE i \in DOMAIN g : g[i].type = commit_type].commits

\* the commit dict with files_changed and diff_summary set
WithFiles(commit, files, diff) ==
    [k \in DOMAIN commit \cup {"diff_summary"} |->
        CASE k = "files_changed" -> files
          [] k = "diff_summary" -> diff
          [] OTHER -> commit[k]]

(***************************************************************************)
(* categorize_files and analyze_change_context.                            *)
(***************************************************************************)
FileCategory(file) ==
    LET f == Lower(file) IN
    IF Contains(f, <<"t","e","s","t">>) THEN Some("tests")
    ELSE IF Contains(f, <<"d","o","c">>) \/ Contains(f, <<"r","e","a","d","m","e">>)
         THEN Some("docs")
    ELSE IF Contains(f, <<"s","r","c","/","l","i","b">>)
            \/ Contains(f, <<"s","r","c","/","a","p","p">>)
         THEN Some("source")
    ELSE IF Contains(f, <<"c","o","n","f","i","g">>) THEN Some("config")
    ELSE IF Contains(f, <<"p","a","c","k","a","g","e">>)
            \/ Contains(f, <<"r","e","q","u","i","r","e","m","e","n","t","s">>)
         THEN Some("dependencies")
    ELSE None

CategoryLimit == 3

\* list(categories)[:3]: all of them when there are at most three; which three
\* of more is the iteration order of a set
CategorizeFiles(files) ==
    LET categories == {FileCategory(files[i])[1] :
                          i \in {j \in DOMAIN files : FileCategory(files[j]) # None}}
    IN  IF Cardinality(categories) <= CategoryLimit THEN categories
        ELSE CHOOSE c \in SUBSET categories : Cardinality(c) = CategoryLimit

\* the parts of the context string, in order; <<>> is the empty string
AnalyzeChangeContext(commit) ==
    (IF commit.breaking THEN <<[part |-> "BREAKING CHANGE", items |-> {}]>> ELSE <<>>)
    \o (IF commit.issue_refs # {}
        THEN <<[part |-> "Addresses", items |-> commit.issue_refs]>> ELSE <<>>)
    \o (IF commit.files_changed # <<>> /\ CategorizeFiles(commit.files_changed) # {}
        THEN <<[part |-> "Modified", items |-> CategorizeFiles(commit.files_changed)]>>
        ELSE <<>>)

(***************************************************************************)
(* The renderers.  The changelog is a sequence of lines (markdown,         *)
(* console) or of members of the "groups" object (json); a line records    *)
(* its kind, the type it belongs to, the commit and its text.  Icons and   *)
(* the timestamp value are not represented.                                *)
(***************************************************************************)
Line(kind, type, hash, text) ==
    [kind |-> kind, type |-> type, hash |-> hash, text |-> text]

\* sorted(groups.keys(), key=priority): stable
SortedTypes(keys) ==
    LET n == Len(keys)
        rank(i) == 1 + Cardinality({j \in 1..n :
                          \/ Priority(keys[j]) < Priority(keys[i])
                          \/ Priority(keys[j]) = Priority(keys[i]) /\ j < i})
    IN  [r \in 1..n |-> keys[CHOOSE i \in 1..n : rank(i) = r]]

\* commit.get("conventional_subject") or commit.get("subject", "No description")
SubjectOf(commit) ==
    IF commit.conventional_subject # <<>> THEN commit.conventional_subject
    ELSE commit.subject

DateLen == 10

\* commit.get("date", "")[:10]
DateOf(commit) ==
    SubSeq(commit.date, 1, IF Len(commit.date) < DateLen THEN Len(commit.date) ELSE DateLen)

GenerateChangelogEntry(commit, include_why) ==
    <<Line("entry", commit.type, commit.hash, SubjectOf(commit))>>
    \o (IF include_why /\ AnalyzeChangeContext(commit) # <<>>
        THEN <<Line("context", commit.type, commit.hash, AnalyzeChangeContext(commit))>>
        ELSE <<>>)
    \o <<Line("meta", commit.type, commit.hash, <<DateOf(commit), commit.author>>)>>

RECURSIVE MarkdownEntries(_)
\* for commit in commits: lines.append(generate_changelog_entry(commit))
MarkdownEntries(cs) ==
    IF cs = <<>> THEN <<>>
    ELSE GenerateChangelogEntry(Head(cs), TRUE) \o MarkdownEntries(Tail(cs))

RECURSIVE MarkdownSections(_, _)
\* for commit_type in sorted_types
MarkdownSections(g, types) ==
    IF types = <<>> THEN <<>>
    ELSE (IF GroupOf(g, Head(types)) = <<>> THEN <<>>
          ELSE <<Line("heading", Head(types), None, DisplayName(Head(types)))>>
               \o MarkdownEntries(GroupOf(g, Head(types))))
         \o MarkdownSections(g, Tail(types))

GenerateMarkdown(g) ==
    <<Line("title", None, None, <<>>), Line("generated", None, None, <<>>)>>
    \o MarkdownSections(g, SortedTypes(GroupKeys(g)))

RECURSIVE JsonMembers(_)
\* for commit_type, commits in groups.items(): the order of the dict
JsonMembers(items) ==
    IF items = <<>> THEN <<>>
    ELSE <<Line("group", Head(items).type, None, DisplayName(Head(items).type))>>
         \o [i \in DOMAIN Head(items).commits |->
                Line("commit", Head(items).type, Head(items).commits[i].hash,
                     Head(items).commits[i])]
         \o JsonMembers(Tail(items))

GenerateJson(g) ==
    <<Line("generated", None, None, <<>>)>> \o JsonMembers(g)

RECURSIVE ConsoleEntries(_)
\* the context line is written whenever the context is not empty
ConsoleEntries(cs) ==
    IF cs = <<>> THEN <<>>
    ELSE LET c == Head(cs) IN
         <<Line("entry", c.type, c.hash, SubjectOf(c))>>
         \o (IF AnalyzeChangeContext(c) # <<>>
             THEN <<Line("context", c.type, c.hash, AnalyzeChangeContext(c))>>
             ELSE <<>>)
         \o <<Line("date", c.type, c.hash, DateOf(c))>>
         \o ConsoleEntries(Tail(cs))

RECURSIVE ConsoleSections(_, _)
ConsoleSections(g, types) ==
    IF types = <<>> THEN <<>>
    ELSE (IF GroupOf(g, Head(types)) = <<>> THEN <<>>
          ELSE <<Line("heading", Head(types), None, Upper(DisplayName(Head(types)))),
                 Line("divider", Head(types), None, <<>>)>>
               \o ConsoleEntries(GroupOf(g, Head(types))))
         \o ConsoleSections(g, Tail(types))

GenerateConsole(g) ==
    <<Line("banner", None, None, <<>>), Line("generated", None, None, <<>>)>>
    \o ConsoleSections(g, SortedTypes(GroupKeys(g)))
    \o <<Line("banner", None, None, <<>>)>>

(***************************************************************************)
(* main, one action per step.                                              *)
(***************************************************************************)
Repos == {".", "/srv/repo"}
Formats == {"markdown", "json", "console"}
OutputFiles == {None, Some("CHANGELOG.md")}

\* repo_path = args.repo if args.repo != "." else None
RepoPath == IF args.repo # "." THEN args.repo ELSE CwdNone

Init ==
    /\ pc = "start"
    /\ args \in [repo : Repos, format : Formats, no_why : BOOLEAN, output : OutputFiles]
    /\ calls = <<>>
    /\ hashes = <<>>
    /\ idx = 0
    /\ commits = <<>>
    /\ groups = <<>>
    /\ output = <<>>
    /\ exit = [status |-> None, stdout |-> "", stderr |-> ""]
    /\ sink = "none"
    /\ input = None
    /\ result = None
    /\ phase = "main"

\* a slip: the message is printed and the run goes on
CheckRepo_NoExit ==
    /\ pc = "start"
    /\ \E outcome \in Outcomes : \E stdout \in RevParseStdouts :
       \E r \in {RunGitCommand(outcome, stdout)} :
        /\ calls' = Append(calls, Call("rev-parse", RepoPath, None, outcome, r))
        /\ IF r.raised THEN Crash
           ELSE /\ pc' = "list"
                /\ exit' = IF r.value = <<>>
                           THEN [exit EXCEPT !.stderr = "Error: Not a git repository"]
                           ELSE exit
    /\ UNCHANGED <<args, hashes, idx, commits, groups, output, sink, funVars>>

\* if not run_git_command(["rev-parse", "--git-dir"], cwd=repo_path): ... sys.exit(1)
CheckRepo ==
    /\ pc = "start"
    /\ \E outcome \in Outcomes : \E stdout \in RevParseStdouts :
       \E r \in {RunGitCommand(outcome, stdout)} :
        /\ calls' = Append(calls, Call("rev-parse", RepoPath, None, outcome, r))
        /\ IF r.raised THEN Crash
           ELSE IF r.value = <<>>
           THEN /\ pc' = "exited"
                /\ exit' = [status |-> Some(1), stdout |-> "",
                            stderr |-> "Error: Not a git repository"]
           ELSE /\ pc' = "list"
                /\ exit' = exit
    /\ UNCHANGED <<args, hashes, idx, commits, groups, output, sink, funVars>>

\* print("No commits found in the specified range."); sys.exit(0)
NoCommits ==
    /\ pc' = "exited"
    /\ exit' = [status |-> Some(0), stdout |-> "No commits found in the specified range.",
                stderr |-> ""]

\* get_commit_log up to the loop: the rev-list call
ListHashes ==
    /\ pc = "list"
    /\ \E outcome \in Outcomes : \E stdout \in RevListStdouts :
       \E r \in {RunGitCommand(outcome, stdout)} :
        /\ calls' = Append(calls, Call("rev-list", RepoPath, None, outcome, r))
        /\ IF r.raised THEN Crash /\ UNCHANGED <<hashes, idx>>
           ELSE IF r.value = <<>> THEN NoCommits /\ UNCHANGED <<hashes, idx>>
           ELSE /\ hashes' = NonBlank(Split(r.value))
                /\ idx' = 1
                /\ pc' = "show"
                /\ exit' = exit
    /\ UNCHANGED <<args, commits, groups, output, sink, funVars>>

\* get_commit_log, one iteration of the loop; after the last one, back in main
ShowCommit ==
    /\ pc = "show"
    /\ idx <= Len(hashes)
    /\ \E outcome \in Outcomes : \E stdout \in ShowStdoutsMain :
       \E r \in {RunGitCommand(outcome, stdout)} :
        /\ calls' = Append(calls, Call("show", RepoPath, hashes[idx], outcome, r))
        /\ IF r.raised THEN Crash /\ UNCHANGED <<commits, idx>>
           ELSE /\ commits' = IF r.value = <<>> THEN commits
                              ELSE Append(commits, CommitFromShow(hashes[idx], r.value))
                /\ IF idx < Len(hashes) THEN idx' = idx + 1 /\ UNCHANGED <<pc, exit>>
                   ELSE IF commits' = <<>> THEN NoCommits /\ idx' = idx
                   ELSE pc' = "group" /\ idx' = 1 /\ exit' = exit
    /\ UNCHANGED <<args, hashes, groups, output, sink, funVars>>

\* group_commits, one iteration of the loop: get_related_files and
\* get_commit_diff pass no cwd
GroupCommit ==
    /\ pc = "group"
    /\ idx <= Len(commits)
    /\ \E o1 \in Outcomes : \E out1 \in NameOnlyStdouts :
       \E o2 \in Outcomes : \E out2 \in StatStdouts :
       \E r1 \in {RunGitCommand(o1, out1)} : \E r2 \in {RunGitCommand(o2, out2)} :
       \E files \in {NonBlank(Split(r1.value))} :
        IF r1.raised
        THEN /\ calls' = Append(calls, Call("name-only", CwdNone, commits[idx].hash, o1, r1))
             /\ Crash
             /\ UNCHANGED <<commits, groups, idx>>
        ELSE /\ calls' = calls \o <<Call("name-only", CwdNone, commits[idx].hash, o1, r1),
                                    Call("stat", CwdNone, commits[idx].hash, o2, r2)>>
             /\ IF r2.raised
                THEN /\ Crash
                     /\ commits' = [commits EXCEPT ![idx].files_changed = files]
                     /\ UNCHANGED <<groups, idx>>
                ELSE /\ commits' = [commits EXCEPT ![idx] = WithFiles(@, files, r2.value)]
                     /\ groups' = GroupsAppend(groups, commits[idx].type, commits'[idx])
                     /\ idx' = idx + 1
                     /\ pc' = IF idx < Len(commits) THEN "group" ELSE "render"
                     /\ exit' = exit
    /\ UNCHANGED <<args, hashes, output, sink, funVars>>

\* the renderer chosen by args.format; args.no_why is read nowhere
Render ==
    /\ pc = "render"
    /\ output' = CASE args.format = "markdown" -> GenerateMarkdown(groups)
                   [] args.format = "json" -> GenerateJson(groups)
                   [] OTHER -> GenerateConsole(groups)
    /\ pc' = "write"
    /\ UNCHANGED <<args, calls, hashes, idx, commits, groups, exit, sink, funVars>>

\* write the text to args.output, or print it
Write ==
    /\ pc = "write"
    /\ IF args.output # None
       THEN /\ sink' = "file"
            /\ exit' = [status |-> Some(0), stdout |-> "Changelog written", stderr |-> ""]
       ELSE /\ sink' = "stdout"
            /\ exit' = [status |-> Some(0), stdout |-> "changelog", stderr |-> ""]
    /\ pc' = "done"
    /\ UNCHANGED <<args, calls, hashes, idx, commits, groups, output, funVars>>

Next == CheckRepo \/ ListHashes \/ ShowCommit \/ GroupCommit \/ Render \/ Write

Spec == Init /\ [][Next]_vars

(***************************************************************************)
(* Function-level specification 1: parse_conventional_commit on a fresh    *)
(* commit dict whose subject is any string of at most MaxTokens tokens.    *)
(***************************************************************************)
Tokens ==
    { <<"F","i","x">>, <<"C","V","E">>, s_unknown, <<"(","a",")">>,
      <<"!">>, <<":">>, <<" ">> }

TokenSeqs == UNION {[1..n -> Tokens] : n \in 1..MaxTokens}

\* the first line of a stripped, non-empty show output
Subjects == {Concat(ts) : ts \in {t \in TokenSeqs : t[1] # <<" ">>}}

NoFields == [subject |-> <<>>, body |-> <<>>, author |-> <<>>, email |-> <<>>, date |-> <<>>]

MainIdle ==
    /\ pc = "idle"
    /\ args = [repo |-> ".", format |-> "console", no_why |-> FALSE, output |-> None]
    /\ calls = <<>>
    /\ hashes = <<>>
    /\ idx = 0
    /\ commits = <<>>
    /\ groups = <<>>
    /\ output = <<>>
    /\ exit = [status |-> None, stdout |-> "", stderr |-> ""]
    /\ sink = "none"

InitClassify ==
    /\ MainIdle
    /\ phase = "in"
    /\ input \in {NewCommit(HashPool[1], [NoFields EXCEPT !.subject = s]) : s \in Subjects}
    /\ result = None

Classify ==
    /\ phase = "in"
    /\ phase' = "done"
    /\ result' = ParseConventionalCommit(input)
    /\ UNCHANGED <<input, mainVars>>

NextClassify == Classify

SpecClassify == InitClassify /\ [][NextClassify]_vars

(***************************************************************************)
(* Function-level specification 2: one iteration of get_commit_log on any  *)
(* show output of at most MaxLines lines.                                  *)
(***************************************************************************)
SubjectVals == { <<>>, <<"s">>, <<"t">> }
BodyVals == { <<>>, <<"b">>, <<"c">> }
AuthorVals == { <<"A">>, <<"B">> }
EmailVals == { <<"e">>, <<"f">> }
DateVals == { <<"d">>, <<"g">> }

MetaLines == 4      \* the subject and the three metadata lines

\* what show prints for %s%n%b%n%an%n%ae%n%ai: the subject, the body lines,
\* the author, the email and the date, one per line
ShowStdouts ==
    {Join(<<sub>> \o body \o <<an, ae, ai>>) :
        <<sub, body, an, ae, ai>> \in
            SubjectVals
            \X (UNION {[1..n -> BodyVals] : n \in 0..(MaxLines - MetaLines)})
            \X AuthorVals \X EmailVals \X DateVals}

InitShow ==
    /\ MainIdle
    /\ phase = "in"
    /\ input \in {RunGitCommand("ok", out).value : out \in ShowStdouts}
    /\ result = None

BuildCommit ==
    /\ phase = "in"
    /\ phase' = "done"
    /\ result' = CommitFromShow(HashPool[1], input)
    /\ UNCHANGED <<input, mainVars>>

NextShow == BuildCommit

SpecShow == InitShow /\ [][NextShow]_vars

(***************************************************************************)
(* The conventional grammar type[(scope)][!]: description, stated as a     *)
(* decomposition of the subject: tl characters of type, then sl > 0        *)
(* characters of scope in parentheses (sl = 0: no scope), then "!" when    *)
(* bang, then ":".                                                         *)
(***************************************************************************)
ColonPos(tl, sl, bang) ==
    tl + 1 + (IF sl > 0 THEN sl + 2 ELSE 0) + (IF bang THEN 1 ELSE 0)

HeadShape(s, tl, sl, bang) ==
    /\ tl >= 1
    /\ ColonPos(tl, sl, bang) <= Len(s)
    /\ \A i \in 1..tl : IsWord(s[i])
    /\ sl > 0 => /\ s[tl + 1] = "("
                 /\ \A i \in (tl + 2)..(tl + 1 + sl) : s[i] # ")"
                 /\ s[tl + 2 + sl] = ")"
    /\ bang => s[ColonPos(tl, sl, bang) - 1] = "!"
    /\ s[ColonPos(tl, sl, bang)] = ":"

\* the description starts wl whitespace characters after the colon
DescriptionAt(s, r, wl) ==
    /\ r + wl + 1 <= Len(s)
    /\ \A i \in (r + 1)..(r + wl) : IsSpace(s[i])
    /\ ~IsSpace(s[r + wl + 1])

\* some text follows the colon
MatchesGrammar(s) ==
    \E tl \in 1..Len(s) : \E sl \in 0..Len(s) : \E bang \in BOOLEAN :
        HeadShape(s, tl, sl, bang) /\ ColonPos(tl, sl, bang) < Len(s)

(***************************************************************************)
(* C4: for a show block of at least 4 lines, author, email and date are    *)
(* its last three lines and body is the lines between the first line and   *)
(* those three; for a shorter block the three fields are empty.            *)
(***************************************************************************)
C4_LastThreeLines ==
    phase = "done" =>
        LET lines == Split(input)
            n == Len(lines)
        IN  IF n >= 4
            THEN /\ result.author = lines[n - 2]
                 /\ result.email = lines[n - 1]
                 /\ result.date = lines[n]
                 /\ result.body = Join(SubSeq(lines, 2, n - 3))
            ELSE /\ result.author = <<>>
                 /\ result.email = <<>>
                 /\ result.date = <<>>

(***************************************************************************)
(* C5: for every subject of the form type[(scope)][!]: description, the    *)
(* commit gets type = the lowercased type token, scope = the text in the   *)
(* parentheses (None without them), breaking = whether "!" is there, and   *)
(* conventional_subject = the description.                                 *)
(***************************************************************************)
C5_ConventionalFields ==
    phase = "done" =>
        LET s == input.subject IN
        \A tl \in 1..Len(s) : \A sl \in 0..Len(s) : \A bang \in BOOLEAN :
            HeadShape(s, tl, sl, bang) =>
                \A wl \in 0..Len(s) :
                    DescriptionAt(s, ColonPos(tl, sl, bang), wl) =>
                        /\ result.type = Lower(SubSeq(s, 1, tl))
                        /\ result.scope = IF sl > 0 THEN Some(SubSeq(s, tl + 2, tl + 1 + sl))
                                          ELSE None
                        /\ result.breaking = bang
                        /\ result.conventional_subject =
                               SubSeq(s, ColonPos(tl, sl, bang) + wl + 1, Len(s))

\* "Fix(a)!:..." has been classified: an upper-case type token, a scope and "!"
C5_Witness ==
    /\ phase = "done"
    /\ \E wl \in 0..Len(input.subject) :
           /\ HeadShape(input.subject, 3, 1, TRUE)
           /\ DescriptionAt(input.subject, ColonPos(3, 1, TRUE), wl)
    /\ input.subject[1] = "F"
    /\ result.type = s_fix
    /\ result.scope = Some(<<"a">>)
    /\ result.breaking

(***************************************************************************)
(* C6: for every subject that does not match the grammar, the type is the  *)
(* first category, in the order fix, feat, docs, refactor, perf, test,     *)
(* security, build, ci, one of whose keywords occurs in the subject when   *)
(* letter case is ignored, "chore" when there is none, and                 *)
(* conventional_subject is the whole subject.                              *)
(***************************************************************************)
KeywordCategories(s) ==
    {i \in DOMAIN InferTable :
        \E word \in InferTable[i].words : Contains(Lower(s), Lower(word))}

C6_KeywordInference ==
    (phase = "done" /\ ~MatchesGrammar(input.subject)) =>
        /\ result.type = IF KeywordCategories(input.subject) = {} THEN s_chore
                         ELSE InferTable[SetMin(KeywordCategories(input.subject))].type
        /\ result.conventional_subject = input.subject

(***************************************************************************)
(* C7: once parse_conventional_commit has run on a commit, its type is     *)
(* never the sentinel "unknown".                                           *)
(***************************************************************************)
C7_NeverUnknown ==
    phase = "done" => result.type # s_unknown

\* C7 as amended: the type is "unknown" only when the subject matches the
\* grammar and its own type token is "unknown" in some letter case; a type
\* chosen by the keyword fallback is one of its ten categories.
C7_UnknownOnlyFromToken ==
    phase = "done" =>
        LET s == input.subject IN
        /\ result.type = s_unknown =>
               \E tl \in 1..Len(s) : \E sl \in 0..Len(s) : \E bang \in BOOLEAN :
                   /\ HeadShape(s, tl, sl, bang)
                   /\ ColonPos(tl, sl, bang) < Len(s)
                   /\ Lower(SubSeq(s, 1, tl)) = s_unknown
        /\ ~MatchesGrammar(s) =>
               result.type \in {InferTable[i].type : i \in DOMAIN InferTable} \cup {s_chore}

\* a subject "unknown...: ..." has been classified and its type is "unknown"
C7_Witness ==
    /\ phase = "done"
    /\ input.type = s_unknown
    /\ MatchesGrammar(input.subject)
    /\ result.type = s_unknown

(***************************************************************************)
(* Claims about a run of main.                                             *)
(***************************************************************************)
Rendered == pc \in {"write", "done"}

\* the type groups of the rendered changelog, in the order they appear
GroupLines == SelectSeq(output, LAMBDA l : l.kind \in {"heading", "group"})

ContextLines == SelectSeq(output, LAMBDA l : l.kind = "context")

(***************************************************************************)
(* C1: in the output of each of the three renderers the type groups appear *)
(* in ascending catalog priority (99 for a type outside the catalog),      *)
(* whatever the insertion order of the keys of the mapping.                *)
(***************************************************************************)
C1_PriorityOrder ==
    Rendered =>
        \A i \in DOMAIN GroupLines : \A j \in DOMAIN GroupLines :
            i < j => Priority(GroupLines[i].type) <= Priority(GroupLines[j].type)

(***************************************************************************)
(* C2: a run started with --no-why renders no context line, in markdown    *)
(* and in console output, for any commit.                                  *)
(***************************************************************************)
C2_NoWhyNoContext ==
    (Rendered /\ args.no_why /\ args.format \in {"markdown", "console"}) =>
        ContextLines = <<>>

(***************************************************************************)
(* C3: every git invocation returns a string, the empty one when the       *)
(* invocation failed (non-zero exit status or no git binary), and no       *)
(* failing invocation ends the run abnormally.                             *)
(***************************************************************************)
C3_FailuresReturnEmpty ==
    /\ \A i \in DOMAIN calls : calls[i].outcome # "ok" => calls[i].ret = "empty"
    /\ pc # "crashed"

(***************************************************************************)
(* C8: when the rev-parse check returns the empty string, main ends with   *)
(* exit status 1 and an error message, and the run holds no other git      *)
(* invocation and no output write.                                         *)
(***************************************************************************)
C8_NotARepository ==
    \A i \in DOMAIN calls :
        (calls[i].op = "rev-parse" /\ calls[i].ret = "empty") =>
            /\ pc = "exited"
            /\ exit.status = Some(1)
            /\ exit.stderr = "Error: Not a git repository"
            /\ Len(calls) = 1
            /\ output = <<>>
            /\ sink = "none"

\* the check has returned the empty string and main has exited
C8_Witness ==
    /\ pc = "exited"
    /\ Len(calls) = 1
    /\ calls[1].op = "rev-parse"
    /\ calls[1].outcome = "nonzero"
    /\ exit.status = Some(1)

(***************************************************************************)
(* C9: group_commits returns a mapping in which every commit appears once, *)
(* under its own type, no group is empty and each group keeps the order of *)
(* the input list; a failed file-list or diff-stat call leaves that field  *)
(* empty and drops no commit: it does not end group_commits.               *)
(***************************************************************************)
C9_GroupsReturned ==
    pc \in {"render", "write", "done"} =>
        /\ \A g \in DOMAIN groups :
               /\ groups[g].commits # <<>>
               /\ groups[g].commits =
                      SelectSeq(commits, LAMBDA c : c.type = groups[g].type)
        /\ \A g \in DOMAIN groups : \A h \in DOMAIN groups :
               groups[g].type = groups[h].type => g = h
        /\ \A k \in DOMAIN commits : \E g \in DOMAIN groups :
               groups[g].type = commits[k].type
        /\ \A i \in DOMAIN calls : \A k \in DOMAIN commits :
               (calls[i].arg = commits[k].hash /\ calls[i].outcome # "ok") =>
                   /\ calls[i].op = "name-only" => commits[k].files_changed = <<>>
                   /\ calls[i].op = "stat" => commits[k].diff_summary = <<>>

C9_Grouping ==
    /\ C9_GroupsReturned
    /\ ~(pc = "crashed" /\ calls[Len(calls)].op \in {"name-only", "stat"})

(***************************************************************************)
(* C10: in a run started with a repository path other than ".", every git  *)
(* invocation of the run is executed against that path.                    *)
(***************************************************************************)
C10_SameRepository ==
    args.repo # "." => \A i \in DOMAIN calls : calls[i].cwd = args.repo

====
